---- MODULE Spec2Model ----
(***************************************************************************)
(* Model of the console contact-book assistant in src/main.py: the Field   *)
(* types, Record, AddressBook (with get_upcoming_birthdays), the command   *)
(* handlers wrapped by input_error, the pickle snapshot and main()'s loop. *)
(*                                                                         *)
(* A Python str is a sequence of one-character strings, so that isdigit,   *)
(* len, strptime and strftime are computed and not assumed.  A date is a   *)
(* record [year, month, day] with the proleptic Gregorian arithmetic of    *)
(* datetime.date.                                                          *)
(***************************************************************************)
EXTENDS Integers, Sequences, FiniteSets, TLC

VARIABLES
    book,    \* AddressBook.data: the insertion-ordered dict, as a sequence of
             \* [key, rec] entries with pairwise different keys
    saved,   \* addressbook.pkl: [exists, data]
    pc,      \* main(): "run" inside the while loop, "done" after the break
    last     \* the last call: operation, arguments and what it returned/raised

vars == <<book, saved, pc, last>>

----------------------------------------------------------------------------
(* Strings *)

DigitChars == <<"0", "1", "2", "3", "4", "5", "6", "7", "8", "9">>

IsDigitChar(c) == \E i \in 1..10 : DigitChars[i] = c

DigitVal(c) == (CHOOSE i \in 1..10 : DigitChars[i] = c) - 1

Chr(n) == DigitChars[n + 1]

\* str.isdigit(): non-empty and every character a digit
IsDigit(s) == Len(s) > 0 /\ \A i \in 1..Len(s) : IsDigitChar(s[i])

RECURSIVE IntOf(_)
IntOf(s) == IF s = <<>> THEN 0
            ELSE 10 * IntOf(SubSeq(s, 1, Len(s) - 1)) + DigitVal(s[Len(s)])

\* None (a Record without birthday): no Birthday value is the empty string,
\* since strptime rejects it
None == <<>>

----------------------------------------------------------------------------
(* datetime.date *)

IsLeap(y) == y % 4 = 0 /\ (y % 100 # 0 \/ y % 400 = 0)

DaysInMonth(y, m) ==
    IF m = 2 THEN (IF IsLeap(y) THEN 29 ELSE 28)
    ELSE IF m \in {4, 6, 9, 11} THEN 30 ELSE 31

DaysBeforeYear(y) ==
    LET p == y - 1 IN p * 365 + (p \div 4) - (p \div 100) + (p \div 400)

\* days of the year before the first day of month m
DaysBeforeMonth(y, m) ==
    <<0, 31, 59, 90, 120, 151, 181, 212, 243, 273, 304, 334>>[m]
    + (IF m > 2 /\ IsLeap(y) THEN 1 ELSE 0)

Date(y, m, d) == [year |-> y, month |-> m, day |-> d]

NoDate == Date(0, 0, 0)

\* the date constructor's check: ValueError when it fails
ValidDate(y, m, d) ==
    /\ y >= 1 /\ y <= 9999
    /\ m >= 1 /\ m <= 12
    /\ d >= 1 /\ d <= DaysInMonth(y, m)

ToOrdinal(dt) == DaysBeforeYear(dt.year) + DaysBeforeMonth(dt.year, dt.month) + dt.day

\* date.weekday(): Monday is 0, Sunday is 6
Weekday(dt) == (ToOrdinal(dt) + 6) % 7

YearRange == 2020..2030

FromOrdinal(n) ==
    LET y == CHOOSE yy \in YearRange :
                 DaysBeforeYear(yy) < n /\ n <= DaysBeforeYear(yy + 1)
        r == n - DaysBeforeYear(y)
        m == CHOOSE mm \in 1..12 :
                 DaysBeforeMonth(y, mm) < r
                 /\ r <= DaysBeforeMonth(y, mm) + DaysInMonth(y, mm)
    IN Date(y, m, r - DaysBeforeMonth(y, m))

\* date + timedelta(days=k)
AddDays(dt, k) == FromOrdinal(ToOrdinal(dt) + k)

\* date.replace(year=y): ok = FALSE stands for the ValueError
\* "day is out of range for month"
ReplaceYear(dt, y) ==
    [ok |-> ValidDate(y, dt.month, dt.day), date |-> Date(y, dt.month, dt.day)]

\* datetime.strptime(s, "%d.%m.%Y"): the format's regular expression
\* (3[0-1]|[1-2]\d|0[1-9]|[1-9]| [1-9])\.(1[0-2]|0[1-9]|[1-9])\.(\d\d\d\d)
\* must match the whole string, and the fields must make a date
DotPositions(s) == {i \in 1..Len(s) : s[i] = "."}

DayField(f) ==
    \/ Len(f) = 2 /\ IsDigit(f) /\ IntOf(f) \in 1..31
    \/ Len(f) = 1 /\ IsDigit(f) /\ IntOf(f) \in 1..9
    \/ Len(f) = 2 /\ f[1] = " " /\ IsDigit(<<f[2]>>) /\ IntOf(<<f[2]>>) \in 1..9

MonthField(f) ==
    \/ Len(f) = 2 /\ IsDigit(f) /\ IntOf(f) \in 1..12
    \/ Len(f) = 1 /\ IsDigit(f) /\ IntOf(f) \in 1..9

YearField(f) == Len(f) = 4 /\ IsDigit(f)

Strptime(s) ==
    LET dots == DotPositions(s) IN
    IF Cardinality(dots) # 2 THEN [ok |-> FALSE, date |-> NoDate]
    ELSE
      LET i == CHOOSE a \in dots : \A b \in dots : a <= b
          j == CHOOSE a \in dots : \A b \in dots : a >= b
          fd == SubSeq(s, 1, i - 1)
          fm == SubSeq(s, i + 1, j - 1)
          fy == SubSeq(s, j + 1, Len(s))
      IN IF ~(DayField(fd) /\ MonthField(fm) /\ YearField(fy))
         THEN [ok |-> FALSE, date |-> NoDate]
         ELSE LET d == IntOf(IF fd[1] = " " THEN <<fd[2]>> ELSE fd)
                  m == IntOf(fm)
                  y == IntOf(fy)
              IN IF ValidDate(y, m, d)
                 THEN [ok |-> TRUE, date |-> Date(y, m, d)]
                 ELSE [ok |-> FALSE, date |-> NoDate]

\* date.strftime("%d.%m.%Y")
Strftime(dt) ==
    <<Chr(dt.day \div 10), Chr(dt.day % 10), ".",
      Chr(dt.month \div 10), Chr(dt.month % 10), ".",
      Chr(dt.year \div 1000), Chr((dt.year \div 100) % 10),
      Chr((dt.year \div 10) % 10), Chr(dt.year % 10)>>

----------------------------------------------------------------------------
(* Field types and Record *)

\* Phone.__init__ accepts the value
PhoneOK(value) == IsDigit(value) /\ Len(value) = 10

\* Birthday.__init__ accepts the value
BirthdayOK(value) == Strptime(value).ok

\* Record.__init__
Record(name) == [name |-> name, phones |-> <<>>, birthday |-> None]

\* what a Record method did: the record afterwards and the exception raised
\* (exc = "" when it returned)
Returned(rec) == [rec |-> rec, exc |-> "", msg |-> ""]

Raised(rec, exc, msg) == [rec |-> rec, exc |-> exc, msg |-> msg]

RemoveAt(s, i) == SubSeq(s, 1, i - 1) \o SubSeq(s, i + 1, Len(s))

\* Record.find_phone: the position of the first phone with that value, 0 for None
Record_find_phone(rec, phone) ==
    IF \E i \in 1..Len(rec.phones) : rec.phones[i] = phone
    THEN CHOOSE i \in 1..Len(rec.phones) :
             /\ rec.phones[i] = phone
             /\ \A j \in 1..(i - 1) : rec.phones[j] # phone
    ELSE 0

Record_add_phone(rec, phone) ==
    IF ~PhoneOK(phone)
    THEN Raised(rec, "ValueError", "Phone number must be exactly 10 digits.")
    ELSE Returned([rec EXCEPT !.phones = Append(@, phone)])

\* a variant that removes the last phone with that value, not the first
Record_remove_phone_Last(rec, phone) ==
    IF \E i \in 1..Len(rec.phones) : rec.phones[i] = phone
    THEN Returned([rec EXCEPT !.phones =
             RemoveAt(@, CHOOSE i \in 1..Len(@) :
                             /\ @[i] = phone
                             /\ \A j \in (i + 1)..Len(@) : @[j] # phone)])
    ELSE Raised(rec, "ValueError", "Phone number not found.")

\* list.remove(phone_obj) compares by identity (Phone defines no __eq__), so it
\* removes the very object find_phone returned
Record_remove_phone(rec, phone) ==
    LET i == Record_find_phone(rec, phone) IN
    IF i # 0
    THEN Returned([rec EXCEPT !.phones = RemoveAt(@, i)])
    ELSE Raised(rec, "ValueError", "Phone number not found.")

\* a variant that removes the old phone before it validates the new one
Record_edit_phone_RemoveFirst(rec, old_phone, new_phone) ==
    IF Record_find_phone(rec, old_phone) = 0
    THEN Raised(rec, "ValueError", "Old phone number not found.")
    ELSE Record_add_phone(Record_remove_phone(rec, old_phone).rec, new_phone)

Record_edit_phone(rec, old_phone, new_phone) ==
    IF Record_find_phone(rec, old_phone) = 0
    THEN Raised(rec, "ValueError", "Old phone number not found.")
    ELSE LET added == Record_add_phone(rec, new_phone) IN
         IF added.exc # "" THEN added
         ELSE Record_remove_phone(added.rec, old_phone)

Record_add_birthday(rec, date_str) ==
    IF ~BirthdayOK(date_str)
    THEN Raised(rec, "ValueError", "Invalid date format. Use DD.MM.YYYY")
    ELSE Returned([rec EXCEPT !.birthday = date_str])

----------------------------------------------------------------------------
(* AddressBook *)

\* position of the key in the dict, 0 when it is no key
KeyIndex(data, name) ==
    IF \E i \in 1..Len(data) : data[i].key = name
    THEN CHOOSE i \in 1..Len(data) : data[i].key = name
    ELSE 0

Keys(data) == {data[i].key : i \in 1..Len(data)}

\* str.lower() on the names used here
Lower(name) ==
    [i \in 1..Len(name) |->
        IF name[i] = "A" THEN "a"
        ELSE IF name[i] = "B" THEN "b"
        ELSE IF name[i] = "C" THEN "c" ELSE name[i]]

\* a variant that keys the record by the lower-cased name
AddressBook_add_record_LowerKey(data, record) ==
    LET i == KeyIndex(data, Lower(record.name)) IN
    IF i = 0 THEN Append(data, [key |-> Lower(record.name), rec |-> record])
    ELSE [data EXCEPT ![i] = [key |-> Lower(record.name), rec |-> record]]

\* self.data[record.name.value] = record: a new key goes last, a known key
\* keeps its place
AddressBook_add_record(data, record) ==
    LET i == KeyIndex(data, record.name) IN
    IF i = 0 THEN Append(data, [key |-> record.name, rec |-> record])
    ELSE [data EXCEPT ![i] = [key |-> record.name, rec |-> record]]

\* AddressBook.find: the position of the record, 0 for None
AddressBook_find(data, name) == KeyIndex(data, name)

\* a variant that removes the newest entry (popitem) instead of the named one
AddressBook_delete_PopItem(data, name) ==
    IF KeyIndex(data, name) # 0
    THEN [data |-> RemoveAt(data, Len(data)), exc |-> "", msg |-> ""]
    ELSE [data |-> data, exc |-> "KeyError", msg |-> "Contact not found."]

AddressBook_delete(data, name) ==
    IF KeyIndex(data, name) # 0
    THEN [data |-> RemoveAt(data, KeyIndex(data, name)), exc |-> "", msg |-> ""]
    ELSE [data |-> data, exc |-> "KeyError", msg |-> "Contact not found."]

\* lines 99-101: the birthday re-anchored to today's year, or to the next year
\* when that is before today; ok = FALSE when date.replace raises
NextOccurrence(born, today) ==
    LET this_year == ReplaceYear(born, today.year) IN
    IF ~this_year.ok THEN this_year
    ELSE IF ToOrdinal(this_year.date) < ToOrdinal(today)
         THEN ReplaceYear(born, today.year + 1)
         ELSE this_year

\* a variant that moves only a Sunday
CongratulationDate_SundayOnly(this_year_bd) ==
    IF Weekday(this_year_bd) > 5
    THEN AddDays(this_year_bd, 7 - Weekday(this_year_bd))
    ELSE this_year_bd

\* lines 105-108: a Saturday or Sunday moves to the Monday after it
CongratulationDate(this_year_bd) ==
    IF Weekday(this_year_bd) >= 5
    THEN AddDays(this_year_bd, 7 - Weekday(this_year_bd))
    ELSE this_year_bd

\* lines 95-118: the loop from entry i on; items are (congr_date, dict) pairs
RECURSIVE CollectItems(_, _, _, _, _)
CollectItems(data, i, today, window, items) ==
    IF i > Len(data) THEN [exc |-> "", msg |-> "", items |-> items]
    ELSE
      LET record == data[i].rec IN
      IF record.birthday = None
      THEN CollectItems(data, i + 1, today, window, items)
      ELSE
        LET born == Strptime(record.birthday) IN
        IF ~born.ok
        THEN [exc |-> "ValueError", msg |-> "time data does not match format",
              items |-> <<>>]
        ELSE
          LET occ == NextOccurrence(born.date, today) IN
          IF ~occ.ok
          THEN [exc |-> "ValueError", msg |-> "day is out of range for month",
                items |-> <<>>]
          ELSE
            LET delta == ToOrdinal(occ.date) - ToOrdinal(today)
                congr_date == CongratulationDate(occ.date)
            IN IF 0 <= delta /\ delta <= window
               THEN CollectItems(data, i + 1, today, window,
                        Append(items,
                            [date |-> congr_date,
                             dict |-> [name |-> record.name,
                                       birthday |-> Strftime(congr_date)]]))
               ELSE CollectItems(data, i + 1, today, window, items)

\* list.sort(key=lambda t: t[0]): stable, ascending by congr_date
RECURSIVE SortItems(_)
SortItems(items) ==
    IF items = <<>> THEN <<>>
    ELSE
      LET n == Len(items)
          x == items[n]
          rest == SortItems(SubSeq(items, 1, n - 1))
          k == Cardinality({j \in 1..Len(rest) :
                               ToOrdinal(rest[j].date) <= ToOrdinal(x.date)})
      IN SubSeq(rest, 1, k) \o <<x>> \o SubSeq(rest, k + 1, Len(rest))

AddressBook_get_upcoming_birthdays(data, today, days) ==
    LET got == CollectItems(data, 1, today, days - 1, <<>>) IN
    IF got.exc # "" THEN got
    ELSE [exc |-> "", msg |-> "",
          items |-> [j \in 1..Len(got.items) |-> SortItems(got.items)[j].dict]]

----------------------------------------------------------------------------
(* Persistence *)

\* pickle.dump(book, f): the file holds a snapshot of the whole book
save_data(data) == [exists |-> TRUE, data |-> data]

\* pickle.load(f), or AddressBook() when the file is missing
load_data(file) == IF file.exists THEN file.data ELSE <<>>

NoFile == [exists |-> FALSE, data |-> <<>>]

----------------------------------------------------------------------------
(* Command handlers.  An outcome is the book and the file after the call and *)
(* what the call returned: (tag, payload), the payload being a message (msg),*)
(* a string built from the data (text), a list of dicts (items) or a list of *)
(* records (records); exc is the exception that escaped, "" for none.        *)

Outcome(b, s, exc, tag, msg, text, items, records) ==
    [book |-> b, saved |-> s, exc |-> exc, tag |-> tag, msg |-> msg,
     text |-> text, items |-> items, records |-> records]

Result(b, s, tag, msg) == Outcome(b, s, "", tag, msg, <<>>, <<>>, <<>>)

Raise(b, s, exc, msg) == Outcome(b, s, exc, "", msg, <<>>, <<>>, <<>>)

\* str(KeyError(m)) is repr(m)
KeyErrorStr(m) == IF m = "Contact not found." THEN "'Contact not found.'" ELSE m

\* the decorator: the five exception types become ("ERROR", message)
input_error(o) ==
    IF o.exc \notin {"ValueError", "KeyError", "IndexError", "AttributeError", "TypeError"}
    THEN o
    ELSE [o EXCEPT
            !.exc = "",
            !.tag = "ERROR",
            !.msg = CASE o.exc = "ValueError" ->
                           (IF o.msg # "" THEN o.msg ELSE "Value error.")
                      [] o.exc = "KeyError" ->
                           (IF o.msg # "" THEN KeyErrorStr(o.msg) ELSE "Enter user name.")
                      [] o.exc = "IndexError" -> "Not enough arguments."
                      [] o.exc = "AttributeError" -> "Contact not found"
                      [] OTHER -> (IF o.msg # "" THEN o.msg ELSE "Type error")]

\* `a, b, *_ = args` with too few values: ValueError
UnpackMsg(need, got) ==
    <<<<"not enough values to unpack (expected at least 1, got 0)">>,
      <<"not enough values to unpack (expected at least 2, got 0)",
        "not enough values to unpack (expected at least 2, got 1)">>,
      <<"not enough values to unpack (expected at least 3, got 0)",
        "not enough values to unpack (expected at least 3, got 1)",
        "not enough values to unpack (expected at least 3, got 2)">>>>[need][got + 1]

\* the record object at position i, as the method left it
SetRec(data, i, rec) == [data EXCEPT ![i] = [key |-> data[i].key, rec |-> rec]]

\* where the book holds the object `record`
PositionOf(data, record) == CHOOSE i \in 1..Len(data) : data[i].rec = record

add_contact(args, b, s) ==
    input_error(
      IF Len(args) < 2 THEN Raise(b, s, "ValueError", UnpackMsg(2, Len(args)))
      ELSE
        LET name == args[1]
            phone == args[2]
            found == AddressBook_find(b, name)
            b1 == IF found = 0 THEN AddressBook_add_record(b, Record(name)) ELSE b
            message == IF found = 0 THEN "Contact added." ELSE "Contact updated."
            i == IF found = 0 THEN PositionOf(b1, Record(name)) ELSE found
            added == Record_add_phone(b1[i].rec, phone)
            b2 == SetRec(b1, i, added.rec)
        IN IF added.exc # "" THEN Raise(b2, s, added.exc, added.msg)
           ELSE Result(b2, save_data(b2), "OK", message))

change_contact(args, b, s) ==
    input_error(
      IF Len(args) < 3 THEN Raise(b, s, "ValueError", UnpackMsg(3, Len(args)))
      ELSE
        LET found == AddressBook_find(b, args[1]) IN
        IF found = 0 THEN Raise(b, s, "ValueError", "Contact not found.")
        ELSE
          LET edited == Record_edit_phone(b[found].rec, args[2], args[3])
              b1 == SetRec(b, found, edited.rec)
          IN IF edited.exc # "" THEN Raise(b1, s, edited.exc, edited.msg)
             ELSE Result(b1, save_data(b1), "OK", "Contact updated."))

\* ";".join(p.value for p in phones)
RECURSIVE JoinPhones(_)
JoinPhones(phones) ==
    IF phones = <<>> THEN <<>>
    ELSE IF Len(phones) = 1 THEN phones[1]
    ELSE phones[1] \o <<";">> \o JoinPhones(Tail(phones))

show_phone(args, b, s) ==
    input_error(
      IF Len(args) < 1 THEN Raise(b, s, "ValueError", UnpackMsg(1, Len(args)))
      ELSE
        LET found == AddressBook_find(b, args[1]) IN
        IF found = 0 THEN Raise(b, s, "ValueError", "Contact not found.")
        ELSE IF b[found].rec.phones = <<>>
             THEN Result(b, s, "OK", "No phones for this contact.")
             ELSE Outcome(b, s, "", "OK", "", JoinPhones(b[found].rec.phones),
                          <<>>, <<>>))

show_all(b, s) ==
    IF b = <<>> THEN Result(b, s, "OK", "No contacts found.")
    ELSE Outcome(b, s, "", "MANY_CONTACTS", "", <<>>, <<>>,
                 [i \in 1..Len(b) |-> b[i].rec])

add_birthday(args, b, s) ==
    input_error(
      IF Len(args) < 2 THEN Raise(b, s, "ValueError", UnpackMsg(2, Len(args)))
      ELSE
        LET found == AddressBook_find(b, args[1]) IN
        IF found = 0 THEN Raise(b, s, "ValueError", "Contact not found")
        ELSE
          LET set == Record_add_birthday(b[found].rec, args[2])
              b1 == SetRec(b, found, set.rec)
          IN IF set.exc # "" THEN Raise(b1, s, set.exc, set.msg)
             ELSE Result(b1, save_data(b1), "OK", "Birthday added."))

show_birthday(args, b, s) ==
    input_error(
      IF Len(args) < 1 THEN Raise(b, s, "ValueError", UnpackMsg(1, Len(args)))
      ELSE
        LET found == AddressBook_find(b, args[1]) IN
        IF found = 0 THEN Raise(b, s, "ValueError", "Contact not found")
        ELSE IF b[found].rec.birthday = None
             THEN Result(b, s, "OK", "No birthday set.")
             ELSE Outcome(b, s, "", "OK", "", b[found].rec.birthday, <<>>, <<>>))

\* birthdays(_, book): get_upcoming_birthdays() with the default days=7, today
\* being what date.today() returns
DefaultDays == 7

birthdays(b, s, today) ==
    input_error(
      LET got == AddressBook_get_upcoming_birthdays(b, today, DefaultDays) IN
      IF got.exc # "" THEN Raise(b, s, got.exc, got.msg)
      ELSE Outcome(b, s, "", "UPCOMING_BIRTHDAYS", "", <<>>, got.items, <<>>))

----------------------------------------------------------------------------
(* The calls.  `last` records the call just made: its name and arguments,  *)
(* what it returned or raised, and for the lookups the position found.     *)

Call(op, args, o, found, today, days) ==
    [op |-> op, args |-> args, exc |-> o.exc, tag |-> o.tag, msg |-> o.msg,
     text |-> o.text, items |-> o.items, records |-> o.records,
     found |-> found, today |-> today, days |-> days]

Apply(op, args, o, found, today, days) ==
    /\ pc = "run"
    /\ book' = o.book
    /\ saved' = o.saved
    /\ last' = Call(op, args, o, found, today, days)
    /\ UNCHANGED pc

\* main(): load_data(), then the loop
Init ==
    /\ saved = NoFile
    /\ book = load_data(saved)
    /\ pc = "run"
    /\ last = Call("start", <<>>, Result(book, saved, "", ""), 0, NoDate, 0)

(* main()'s branches, the input already split by parse_input *)

AddCmd(args) == Apply("add", args, add_contact(args, book, saved), 0, NoDate, 0)

ChangeCmd(args) ==
    Apply("change", args, change_contact(args, book, saved), 0, NoDate, 0)

PhoneCmd(args) == Apply("phone", args, show_phone(args, book, saved), 0, NoDate, 0)

AllCmd == Apply("all", <<>>, show_all(book, saved), 0, NoDate, 0)

AddBirthdayCmd(args) ==
    Apply("add-birthday", args, add_birthday(args, book, saved), 0, NoDate, 0)

ShowBirthdayCmd(args) ==
    Apply("show-birthday", args, show_birthday(args, book, saved), 0, NoDate, 0)

BirthdaysCmd(today) ==
    Apply("birthdays", <<>>, birthdays(book, saved, today), 0, today, DefaultDays)

\* hello, help, the empty line and an unknown command only render
OtherCmd(command) ==
    Apply(command, <<>>, Result(book, saved, "", ""), 0, NoDate, 0)

\* close | exit: save_data(book), break
ExitCmd ==
    /\ pc = "run"
    /\ saved' = save_data(book)
    /\ pc' = "done"
    /\ last' = Call("exit", <<>>, Result(book, saved', "", ""), 0, NoDate, 0)
    /\ UNCHANGED book

\* the program is started again: main() loads the file
Restart ==
    /\ pc = "done"
    /\ book' = load_data(saved)
    /\ pc' = "run"
    /\ last' = Call("start", <<>>, Result(book', saved, "", ""), 0, NoDate, 0)
    /\ UNCHANGED saved

(* The classes' methods, called directly on the book and its records *)

AddRecordOp(record) ==
    Apply("add_record", <<record.name>>,
          Result(AddressBook_add_record(book, record), saved, "", ""), 0, NoDate, 0)

FindOp(name) ==
    Apply("find", <<name>>, Result(book, saved, "", ""),
          AddressBook_find(book, name), NoDate, 0)

DeleteOp(name) ==
    LET d == AddressBook_delete(book, name) IN
    Apply("delete", <<name>>, Raise(d.data, saved, d.exc, d.msg), 0, NoDate, 0)

\* a method of the record stored under `name`
RecordOp(op, name, args, r) ==
    Apply(op, <<name>> \o args,
          Raise(SetRec(book, AddressBook_find(book, name), r.rec), saved, r.exc, r.msg),
          0, NoDate, 0)

AddPhoneOp(name, phone) ==
    /\ AddressBook_find(book, name) # 0
    /\ RecordOp("add_phone", name, <<phone>>,
                Record_add_phone(book[AddressBook_find(book, name)].rec, phone))

RemovePhoneOp(name, phone) ==
    /\ AddressBook_find(book, name) # 0
    /\ RecordOp("remove_phone", name, <<phone>>,
                Record_remove_phone(book[AddressBook_find(book, name)].rec, phone))

EditPhoneOp(name, old_phone, new_phone) ==
    /\ AddressBook_find(book, name) # 0
    /\ RecordOp("edit_phone", name, <<old_phone, new_phone>>,
                Record_edit_phone(book[AddressBook_find(book, name)].rec,
                                  old_phone, new_phone))

FindPhoneOp(name, phone) ==
    /\ AddressBook_find(book, name) # 0
    /\ Apply("find_phone", <<name, phone>>, Result(book, saved, "", ""),
             Record_find_phone(book[AddressBook_find(book, name)].rec, phone),
             NoDate, 0)

SetBirthdayOp(name, date_str) ==
    /\ AddressBook_find(book, name) # 0
    /\ RecordOp("add_birthday", name, <<date_str>>,
                Record_add_birthday(book[AddressBook_find(book, name)].rec, date_str))

UpcomingOp(today, days) ==
    LET got == AddressBook_get_upcoming_birthdays(book, today, days) IN
    Apply("get_upcoming_birthdays", <<>>,
          Outcome(book, saved, got.exc, "", got.msg, <<>>, got.items, <<>>),
          0, today, days)

----------------------------------------------------------------------------
(* Inputs *)

Alice == <<"A", "l", "i", "c", "e">>
Bob == <<"B", "o", "b">>
Carol == <<"C", "a", "r", "o", "l">>

PhoneA == <<"0", "5", "0", "1", "2", "3", "4", "5", "6", "7">>
PhoneB == <<"0", "9", "3", "7", "6", "5", "4", "3", "2", "1">>
PhoneShort == <<"1", "2", "3", "4", "5">>
PhoneAlpha == <<"0", "5", "0", "1", "2", "3", "4", "5", "a", "b">>

Born1403 == <<"1", "4", ".", "0", "3", ".", "1", "9", "9", "0">>
Born1603 == <<"1", "6", ".", "0", "3", ".", "1", "9", "8", "5">>
Born0201 == <<"0", "2", ".", "0", "1", ".", "1", "9", "9", "0">>
Born2902 == <<"2", "9", ".", "0", "2", ".", "2", "0", "0", "0">>
Born1003 == <<"1", "0", ".", "0", "3", ".", "1", "9", "9", "9">>
Born1703 == <<"1", "7", ".", "0", "3", ".", "1", "9", "9", "0">>
BornDay32 == <<"3", "2", ".", "0", "1", ".", "1", "9", "9", "0">>
BornDashes == <<"1", "4", "-", "0", "3", "-", "1", "9", "9", "0">>

\* 10.03.2024 is a Sunday in a leap year; 2023 and 2025 are no leap years
Today20240310 == Date(2024, 3, 10)
Today20241231 == Date(2024, 12, 31)
Today20240225 == Date(2024, 2, 25)
Today20230310 == Date(2023, 3, 10)
Today20230225 == Date(2023, 2, 25)

\* the most phones a record holds in SpecRecord
MaxPhones == 3
\* the most phones a record holds in SpecMain
MaxCmdPhones == 1
\* the most phones the whole book holds in Spec
MaxBookPhones == 1
\* the widest lookahead window asked of get_upcoming_birthdays
MaxDays == 9

RECURSIVE TotalPhones(_)
TotalPhones(data) ==
    IF data = <<>> THEN 0
    ELSE Len(data[1].rec.phones) + TotalPhones(Tail(data))

PhonesPerRecord(data, n) == \A i \in 1..Len(data) : Len(data[i].rec.phones) <= n

----------------------------------------------------------------------------
(* Spec: the calls that change the book or the file, methods and commands  *)
(* mixed, on a small book                                                  *)

Names == {Alice, Bob}
Phones == {PhoneA, PhoneShort}
Dates == {Born1403, BornDay32}

Next ==
    \/ \E n \in Names, p \in Phones :
           AddCmd(<<n, p>>) /\ TotalPhones(book') <= MaxBookPhones
    \/ \E n \in Names : ChangeCmd(<<n, PhoneA, PhoneA>>)
    \/ \E n \in Names, d \in Dates : AddBirthdayCmd(<<n, d>>)
    \/ ExitCmd
    \/ Restart
    \/ \E n \in Names : AddRecordOp(Record(n))
    \/ \E n \in Names : FindOp(n)
    \/ \E n \in Names : DeleteOp(n)
    \/ \E n \in Names :
           AddPhoneOp(n, PhoneA) /\ TotalPhones(book') <= MaxBookPhones
    \/ \E n \in Names : RemovePhoneOp(n, PhoneA)
    \/ \E n \in Names : EditPhoneOp(n, PhoneA, PhoneA)
    \/ \E n \in Names : SetBirthdayOp(n, Born1403)

Spec == Init /\ [][Next]_vars

----------------------------------------------------------------------------
(* SpecMain: main() alone, the commands a user types *)

MainPhones == {PhoneA, PhoneB, PhoneShort, PhoneAlpha}
MainDates == {Born1603, Born2902, BornDay32}
MainTodays == {Today20240310, Today20240225, Today20230310}

NextMain ==
    \/ \E n \in Names, p \in MainPhones :
           AddCmd(<<n, p>>) /\ PhonesPerRecord(book', MaxCmdPhones)
    \/ \E a \in {<<>>, <<Alice>>} : AddCmd(a)
    \/ \E n \in Names, p \in MainPhones, q \in MainPhones : ChangeCmd(<<n, p, q>>)
    \/ \E n \in Names : PhoneCmd(<<n>>)
    \/ AllCmd
    \/ \E n \in Names, d \in MainDates : AddBirthdayCmd(<<n, d>>)
    \/ \E n \in Names : ShowBirthdayCmd(<<n>>)
    \/ \E t \in MainTodays : BirthdaysCmd(t)
    \/ \E c \in {"hello", "help", "", "unknown"} : OtherCmd(c)
    \/ ExitCmd
    \/ Restart

SpecMain == Init /\ [][NextMain]_vars

----------------------------------------------------------------------------
(* SpecRecord: the methods of one Record *)

RecordPhones == {PhoneA, PhoneB, PhoneShort, PhoneAlpha}

NextRecord ==
    \/ AddRecordOp(Record(Alice))
    \/ \E p \in RecordPhones :
           AddPhoneOp(Alice, p) /\ PhonesPerRecord(book', MaxPhones)
    \/ \E p \in RecordPhones : RemovePhoneOp(Alice, p)
    \/ \E p \in RecordPhones, q \in RecordPhones : EditPhoneOp(Alice, p, q)
    \/ \E p \in RecordPhones : FindPhoneOp(Alice, p)

SpecRecord == Init /\ [][NextRecord]_vars

----------------------------------------------------------------------------
(* SpecBirthdays: get_upcoming_birthdays over books of birthdays *)

BirthdayNames == {Alice, Bob}
BirthdayDates == {Born1403, Born1603, Born0201, Born2902, Born1003, Born1703,
                  BornDay32}
Todays == {Today20240310, Today20241231, Today20240225, Today20230310,
           Today20230225}
Days == {0, 1, DefaultDays, MaxDays}

NextBirthdays ==
    \/ \E n \in BirthdayNames : AddRecordOp(Record(n))
    \/ \E n \in BirthdayNames : DeleteOp(n)
    \/ \E n \in BirthdayNames, d \in BirthdayDates : SetBirthdayOp(n, d)
    \/ \E t \in Todays, k \in Days : UpcomingOp(t, k)
    \/ \E t \in Todays : BirthdaysCmd(t)

SpecBirthdays == Init /\ [][NextBirthdays]_vars

----------------------------------------------------------------------------
(* Properties *)

\* the record stored under a key
RecOf(data, name) == data[KeyIndex(data, name)].rec

Has(seq, x) == \E i \in 1..Len(seq) : seq[i] = x

\* exactly 10 decimal digits
TenDigits(v) ==
    /\ Len(v) = 10
    /\ \A i \in 1..Len(v) :
           v[i] \in {"0", "1", "2", "3", "4", "5", "6", "7", "8", "9"}

ValidationMessages ==
    {"Phone number must be exactly 10 digits.", "Invalid date format. Use DD.MM.YYYY"}

MutatingCommands == {"add", "change", "add-birthday"}

\* C1: a command (add, change, add-birthday) that ends in a validation failure
\* leaves the AddressBook as it was before the command.
C1_ValidationFailureLeavesBook ==
    [][(/\ last'.op \in MutatingCommands
        /\ last'.tag = "ERROR"
        /\ last'.msg \in ValidationMessages) => book' = book]_vars

\* C2: whenever a command has changed the in-memory book the file holds that
\* book when the next command is read, and after close/exit the file holds the
\* in-memory book.
C2_FlushedAfterEveryMutation ==
    /\ [][(last'.op \in MutatingCommands /\ book' # book)
            => saved' = [exists |-> TRUE, data |-> book']]_vars
    /\ [](pc = "done" => saved = [exists |-> TRUE, data |-> book])

\* C3: an edit_phone(old, new) that fails leaves the phone sequence as it was:
\* with old present and new invalid it fails and old is still there; with old
\* absent it fails with the not-found error whatever new is.
C3_FailedEditKeepsPhones ==
    [][last'.op = "edit_phone" =>
         LET name == last'.args[1]
             old == last'.args[2]
             new == last'.args[3]
             before == RecOf(book, name).phones
             after == RecOf(book', name).phones
         IN /\ last'.exc # "" => after = before
            /\ (Has(before, old) /\ ~TenDigits(new))
                 => (last'.exc # "" /\ after = before /\ Has(after, old))
            /\ ~Has(before, old)
                 => (/\ last'.exc = "ValueError"
                     /\ last'.msg = "Old phone number not found."
                     /\ after = before)]_vars

\* an edit_phone that failed on an invalid new phone, on a record that holds the
\* old phone among others
C3_Witness ==
    /\ last.op = "edit_phone"
    /\ last.exc = "ValueError"
    /\ last.msg = "Phone number must be exactly 10 digits."
    /\ Has(RecOf(book, last.args[1]).phones, last.args[2])
    /\ Len(RecOf(book, last.args[1]).phones) >= 2

\* C4: every key of the AddressBook equals the name of the Record stored under
\* it, and no two entries hold the same name.
C4_KeyIsRecordName ==
    /\ \A i \in 1..Len(book) : book[i].key = book[i].rec.name
    /\ \A i, j \in 1..Len(book) : book[i].rec.name = book[j].rec.name => i = j

\* the add command has created a second contact after another one
C4_Witness ==
    /\ last.op = "add"
    /\ last.msg = "Contact added."
    /\ Len(book) = 2
    /\ book[2].key = last.args[1]

\* the entries of the book other than the one under `name`, in their order
Others(data, name) == SelectSeq(data, LAMBDA e : e.key # name)

\* C5: delete(name) of a name that is no key fails with the not-found error and
\* leaves the book unchanged; of a key it removes that entry, so that find(name)
\* returns None, and leaves every other entry unchanged.
C5_Delete ==
    [][last'.op = "delete" =>
         LET name == last'.args[1] IN
         IF \E i \in 1..Len(book) : book[i].key = name
         THEN /\ last'.exc = ""
              /\ AddressBook_find(book', name) = 0
              /\ book' = Others(book, name)
         ELSE /\ last'.exc = "KeyError"
              /\ book' = book]_vars

\* a delete that removed one contact and left another, which has a phone
C5_Witness ==
    /\ last.op = "delete"
    /\ last.exc = ""
    /\ Len(book) = 1
    /\ book[1].rec.phones # <<>>

\* the birthday's day and month in today's year, or in the following year when
\* that date is before today (compared as month and day)
OccurrenceOf(born, today) ==
    IF born.month < today.month
       \/ (born.month = today.month /\ born.day < today.day)
    THEN Date(today.year + 1, born.month, born.day)
    ELSE Date(today.year, born.month, born.day)

IsDate(dt) == dt.month \in 1..12 /\ dt.day \in 1..DaysInMonth(dt.year, dt.month)

\* 29 February has no next occurrence when the year it falls in, or today's
\* year before it, is no leap year
HasOccurrence(born, today) ==
    /\ IsDate(Date(today.year, born.month, born.day))
    /\ IsDate(OccurrenceOf(born, today))

BornOf(rec) == Strptime(rec.birthday).date

InWindow(occ, today, days) ==
    /\ 0 <= ToOrdinal(occ) - ToOrdinal(today)
    /\ ToOrdinal(occ) - ToOrdinal(today) <= days - 1

Returned_(name) == \E k \in 1..Len(last.items) : last.items[k].name = name

\* C6: a record is in the result of get_upcoming_birthdays(days) if and only if
\* it has a birthday and 0 <= next_occurrence - today <= days - 1 (stated for
\* the records whose next occurrence is a calendar date).
C6_ReturnedIffInWindow ==
    last.op = "get_upcoming_birthdays" =>
      \A i \in 1..Len(book) :
        LET rec == book[i].rec IN
        /\ rec.birthday = None => ~Returned_(rec.name)
        /\ (rec.birthday # None /\ HasOccurrence(BornOf(rec), last.today))
             => (Returned_(rec.name)
                   <=> InWindow(OccurrenceOf(BornOf(rec), last.today),
                                last.today, last.days))

UpcomingOps == {"get_upcoming_birthdays", "birthdays"}

\* C7: the date of every returned item is the next occurrence when that is a
\* weekday, 2 days later when it is a Saturday and 1 day later when it is a
\* Sunday; no returned date is a Saturday or Sunday, and none lies more than
\* 2 days past the window's end, today + days - 1.
C7_WeekendMovesToMonday ==
    last.op \in UpcomingOps =>
      \A k \in 1..Len(last.items) :
        LET rec == RecOf(book, last.items[k].name)
            occ == OccurrenceOf(BornOf(rec), last.today)
            given == Strptime(last.items[k].birthday)
        IN /\ given.ok
           /\ ToOrdinal(given.date) - ToOrdinal(occ)
                = (IF Weekday(occ) = 5 THEN 2 ELSE IF Weekday(occ) = 6 THEN 1 ELSE 0)
           /\ Weekday(given.date) \in 0..4
           /\ ToOrdinal(given.date) <= ToOrdinal(last.today) + last.days - 1 + 2

\* with today 10.03.2024 and 7 days, the birthday 16.03 (a Saturday, the last
\* day of the window) is returned as Monday 18.03.2024
C7_Witness ==
    /\ last.op = "get_upcoming_birthdays"
    /\ last.today = Today20240310
    /\ last.days = DefaultDays
    /\ \E k \in 1..Len(last.items) :
         /\ RecOf(book, last.items[k].name).birthday = Born1603
         /\ last.items[k].birthday = Strftime(Date(2024, 3, 18))

\* a record that may count as upcoming: its next occurrence is in the window,
\* or it is a 29 February without one and 28 February or 1 March is
MayQualify(rec, today, days) ==
    /\ rec.birthday # None
    /\ IF HasOccurrence(BornOf(rec), today)
       THEN InWindow(OccurrenceOf(BornOf(rec), today), today, days)
       ELSE \E y \in {today.year, today.year + 1} :
              \/ InWindow(Date(y, 2, 28), today, days)
              \/ InWindow(Date(y, 3, 1), today, days)

\* C8: the sequence get_upcoming_birthdays returns is ascending by
\* congratulation date, and it is the empty sequence when no birthday qualifies.
C8_SortedAndEmpty ==
    last.op = "get_upcoming_birthdays" =>
      /\ \A i, j \in 1..Len(last.items) :
           i < j => ToOrdinal(Strptime(last.items[i].birthday).date)
                      <= ToOrdinal(Strptime(last.items[j].birthday).date)
      /\ (\A i \in 1..Len(book) : ~MayQualify(book[i].rec, last.today, last.days))
           => (last.exc = "" /\ last.items = <<>>)

\* C9: whatever valid birthdays the book holds, 29 February included, the
\* 'birthdays' query returns the list of upcoming birthdays, not an error.
C9_BirthdaysNeverFails ==
    last.op = "birthdays" => last.tag = "UPCOMING_BIRTHDAYS"

\* position of the first phone equal to `old`
FirstOf(phones, old) ==
    CHOOSE i \in 1..Len(phones) :
        phones[i] = old /\ \A j \in 1..(i - 1) : phones[j] # old

\* C10: a successful edit_phone(old, new) keeps the length of the phone
\* sequence, puts new last, removes exactly the first occurrence of old and
\* keeps every other phone in its order, duplicates and old = new included.
C10_EditReplaces ==
    [][(last'.op = "edit_phone" /\ last'.exc = "") =>
         LET name == last'.args[1]
             old == last'.args[2]
             new == last'.args[3]
             before == RecOf(book, name).phones
             after == RecOf(book', name).phones
             f == FirstOf(before, old)
         IN /\ Has(before, old)
            /\ Len(after) = Len(before)
            /\ after[Len(after)] = new
            /\ \A k \in 1..(Len(before) - 1) :
                 after[k] = IF k < f THEN before[k] ELSE before[k + 1]]_vars

\* a successful edit of a phone the record held twice: one is still there
C10_Witness ==
    /\ last.op = "edit_phone"
    /\ last.exc = ""
    /\ last.args[2] # last.args[3]
    /\ Len(RecOf(book, last.args[1]).phones) = 3
    /\ Has(RecOf(book, last.args[1]).phones, last.args[2])

====
